---- MODULE Spec2Model ----
(***************************************************************************)
(* Model of the order-book WebSocket client of the trading frontend:       *)
(*   - WebSocketService (frontend/src/services/websocket.ts): transport    *)
(*     handle, connect guard, outbound message queue, reconnect backoff,   *)
(*     listener registry;                                                  *)
(*   - useWebSocketStore (store/websocket): the store that owns a service, *)
(*     tracks the current symbol and caches order-book snapshots;          *)
(*   - the browser side of a WebSocket (readyState, open/close/error/      *)
(*     message events) and of setTimeout.                                  *)
(* Every handler runs to completion (JavaScript run-to-completion), so one *)
(* action is one handler together with the microtasks it leaves behind.    *)
(***************************************************************************)
EXTENDS Integers, Sequences, FiniteSets, TLC

\* ---------------------------------------------------------------- bounds
MaxTransports == 2      \* WebSocket objects alive (not yet closed) at one time
MaxServices == 2        \* WebSocketService objects still referenced at one time
MaxTimers == 1          \* setTimeout callbacks pending at one time
MaxCommands == 2        \* subscribe/unsubscribe commands issued in one behaviour
MaxListeners == 2       \* listeners registered with on() at one time

\* two symbols that differ only in letter case
Symbols == {"EUR/USD", "eur/usd"}
Depths == {5, 10}
Snapshots == {"d1"}

\* ------------------------------------------------------ program constants
maxReconnectAttempts == 5
reconnectInterval == 1000
NormalClosure == 1000
defaultLevels == 5
Null == 0

\* close codes of a close event that no error event precedes (normal closure,
\* going away) and the code of the close event that follows an error event
CleanCloseCodes == {NormalClosure, 1001}
AbnormalCloseCodes == {1006}

\* --------------------------------------------------------------- state
VARIABLES
    transports,     \* the WebSocket objects; a closed one is garbage, its slot free
    services,       \* the WebSocketService objects; live = still referenced
    timers,         \* pending setTimeout callbacks: how many of each kind
    wsService,      \* the store's closure variable wsService (Null or a service)
    store,          \* the zustand state of useWebSocketStore
    selectedSymbol, \* useMarketStore.selectedSymbol
    nextCmd,        \* number of commands issued so far (their issue order)
    hung            \* TRUE once a handler loops forever

vars == <<transports, services, timers, wsService, store, selectedSymbol,
          nextCmd, hung>>

\* The state the handlers read and write, as one value, so that the calls a
\* handler makes can be composed in program order. fx is what the handler has
\* done so far, in order (sends, emits, promise outcomes, ...); overflow is set
\* when it needed more objects than the model has slots for; thrown is set
\* while an exception is propagating.
World ==
    [transports |-> transports, services |-> services, timers |-> timers,
     wsService |-> wsService, store |-> store, selectedSymbol |-> selectedSymbol,
     nextCmd |-> nextCmd, hung |-> hung, fx |-> <<>>, overflow |-> FALSE,
     thrown |-> FALSE]

Commit(w) ==
    /\ transports' = w.transports
    /\ services' = w.services
    /\ timers' = w.timers
    /\ wsService' = w.wsService
    /\ store' = w.store
    /\ selectedSymbol' = w.selectedSymbol
    /\ nextCmd' = w.nextCmd
    /\ hung' = w.hung

Log(w, e) == [w EXCEPT !.fx = Append(@, e)]

RECURSIVE Sum(_, _)
Sum(f, S) == IF S = {} THEN 0 ELSE LET x == CHOOSE y \in S : TRUE IN f[x] + Sum(f, S \ {x})

Min(S) == CHOOSE x \in S : \A y \in S : x <= y

NoTimers == [reconnect |-> [s \in 1..MaxServices |-> 0], autoSubscribe |-> 0]
PendingTimers(w) == Sum(w.timers.reconnect, 1..MaxServices) + w.timers.autoSubscribe

WithinBounds(w) ==
    /\ ~w.overflow
    /\ PendingTimers(w) <= MaxTimers
    /\ w.nextCmd <= MaxCommands

\* ------------------------------------------------------------ the store
\* orderBookData: {} (an absent entry reads as null)
EmptyOrderBookData == [s \in Symbols |-> "null"]

StoreInit ==
    [wsService |-> Null, orderBookData |-> EmptyOrderBookData, lastUpdate |-> 0,
     isConnected |-> FALSE, connectionError |-> "null", currentSymbol |-> "null"]

\* wsService.on('connected', ...): the subscription itself waits 500 ms
storeOnConnected(w) ==
    Log([w EXCEPT !.store.isConnected = TRUE,
                  !.store.connectionError = "null",
                  !.timers.autoSubscribe = @ + 1],
        <<"setTimeout", "autoSubscribe", 500>>)

\* the 'disconnected' listener as it would be if it kept the current symbol
storeOnDisconnectedKeepSymbol(w) ==
    [w EXCEPT !.store.isConnected = FALSE,
              !.store.orderBookData = EmptyOrderBookData,
              !.store.lastUpdate = 0]

\* wsService.on('disconnected', ...)
storeOnDisconnected(w) ==
    [w EXCEPT !.store.isConnected = FALSE,
              !.store.orderBookData = EmptyOrderBookData,
              !.store.lastUpdate = 0,
              !.store.currentSymbol = "null"]

\* wsService.on('error', ...): error?.error || 'Connection error'
storeOnError(w, data) ==
    [w EXCEPT !.store.connectionError = IF data = "null" THEN "Connection error" ELSE data,
              !.store.isConnected = FALSE]

\* the 'orderbook' listener as it would be if it kept an entry it already has
storeOnOrderbookKeepFirst(w, data) ==
    [w EXCEPT !.store.orderBookData[data.symbol] = IF @ = "null" THEN data.data ELSE @,
              !.store.lastUpdate = 1,
              !.store.connectionError = "null"]

\* wsService.on('orderbook', ...): keyed by message.data.symbol
\* (reading orderBookData.symbol of a message without data throws TypeError)
storeOnOrderbook(w, data) ==
    IF data.data = "null" THEN [w EXCEPT !.thrown = TRUE]
    ELSE [w EXCEPT !.store.orderBookData[data.symbol] = data.data,
                   !.store.lastUpdate = 1,
                   !.store.connectionError = "null"]

\* on(event, callback)
on(w, s, event, cb) == [w EXCEPT !.services[s].eventListeners[event] = Append(@, cb)]

\* listeners.indexOf(callback): 0 when absent
IndexOf(listeners, cb) ==
    IF \E i \in DOMAIN listeners : listeners[i] = cb
    THEN Min({i \in DOMAIN listeners : listeners[i] = cb})
    ELSE 0

\* off(event, callback): listeners.splice(index, 1) when index > -1
off(w, s, event, cb) ==
    LET listeners == w.services[s].eventListeners[event]
        index == IndexOf(listeners, cb)
    IN IF index = 0 THEN w
       ELSE [w EXCEPT !.services[s].eventListeners[event] =
                         SubSeq(listeners, 1, index - 1)
                         \o SubSeq(listeners, index + 1, Len(listeners))]

\* listeners of other consumers: two that return normally, one that throws,
\* one that unregisters itself when it is called
Callbacks == {"cbA", "cbB", "throws", "offSelf"}

\* callback(data): the store's listeners, or a consumer's listener
RunCallback(w, s, cb, event, data) ==
    CASE cb = "storeOnConnected" -> storeOnConnected(w)
      [] cb = "storeOnDisconnected" -> storeOnDisconnected(w)
      [] cb = "storeOnError" -> storeOnError(w, data)
      [] cb = "storeOnOrderbook" -> storeOnOrderbook(w, data)
      [] cb = "throws" -> [Log(w, <<"call", cb, event>>) EXCEPT !.thrown = TRUE]
      [] cb = "offSelf" -> off(Log(w, <<"call", cb, event>>), s, event, cb)
      [] OTHER -> Log(w, <<"call", cb, event>>)

\* ---------------------------------------------------- WebSocketService
EventKinds == {"connected", "disconnected", "error", "orderbook"}

NoListeners == [e \in EventKinds |-> <<>>]

\* the four wsService.on(...) calls of the store's connect
StoreListeners ==
    [e \in EventKinds |->
        CASE e = "connected" -> <<"storeOnConnected">>
          [] e = "disconnected" -> <<"storeOnDisconnected">>
          [] e = "error" -> <<"storeOnError">>
          [] e = "orderbook" -> <<"storeOnOrderbook">>]

\* new WebSocketService(wsUrl); held: the creator keeps the reference for good
NewService(listeners, held) ==
    [live |-> TRUE, held |-> held, ws |-> Null, reconnectAttempts |-> 0,
     isConnecting |-> FALSE, messageQueue |-> <<>>, eventListeners |-> listeners]

FreeService ==
    [live |-> FALSE, held |-> FALSE, ws |-> Null, reconnectAttempts |-> 0,
     isConnecting |-> FALSE, messageQueue |-> <<>>, eventListeners |-> NoListeners]

FreeServices(w) == {s \in 1..MaxServices : ~w.services[s].live}

\* get isConnected(): this.ws?.readyState === WebSocket.OPEN
isConnected(w, s) ==
    /\ w.services[s].ws # Null
    /\ w.transports[w.services[s].ws].readyState = "OPEN"

\* get connectionState()
connectionState(w, s) ==
    IF w.services[s].ws = Null THEN "disconnected"
    ELSE CASE w.transports[w.services[s].ws].readyState = "CONNECTING" -> "connecting"
           [] w.transports[w.services[s].ws].readyState = "OPEN" -> "connected"
           [] w.transports[w.services[s].ws].readyState = "CLOSING" -> "closing"
           [] OTHER -> "disconnected"

\* listeners.forEach(callback => callback(data)): indices 1..len of the array
\* as it is when each index is reached (len = its length at the start); an
\* exception thrown by a callback ends the iteration and propagates
RECURSIVE RunListeners(_, _, _, _, _, _)
RunListeners(w, s, event, data, k, len) ==
    IF k > len \/ w.thrown THEN w
    ELSE IF k > Len(w.services[s].eventListeners[event])
    THEN RunListeners(w, s, event, data, k + 1, len)
    ELSE RunListeners(RunCallback(w, s, w.services[s].eventListeners[event][k], event, data),
                      s, event, data, k + 1, len)

\* private emit(event, data)
emit(w, s, event, data) ==
    RunListeners(Log(w, <<"emit", s, event, data>>), s, event, data, 1,
                 Len(w.services[s].eventListeners[event]))

\* an exception that leaves an event handler is reported by the browser and
\* the event loop goes on
uncaught(w) ==
    IF w.thrown THEN Log([w EXCEPT !.thrown = FALSE], <<"uncaught">>) ELSE w

\* private sendMessage(message)
sendMessage(w, s, m) ==
    IF isConnected(w, s)
    THEN Log([w EXCEPT !.transports[w.services[s].ws].sent = Append(@, m)],
             <<"send", w.services[s].ws, m>>)
    ELSE Log([w EXCEPT !.services[s].messageQueue = Append(@, m)],
             <<"enqueue", s, m>>)

\* the subscribe command as it would be if the symbol were upper-cased
SubscribeMessageUpperCase(symbol, levels, seq) ==
    [type |-> "subscribe", symbol |-> IF symbol = "eur/usd" THEN "EUR/USD" ELSE symbol,
     levels |-> levels, seq |-> seq]

SubscribeMessage(symbol, levels, seq) ==
    [type |-> "subscribe", symbol |-> symbol, levels |-> levels, seq |-> seq]

UnsubscribeMessage(symbol, seq) ==
    [type |-> "unsubscribe", symbol |-> symbol, levels |-> Null, seq |-> seq]

\* subscribe as it would be if it always sent the default depth
subscribeDefaultLevels(w, s, symbol, levels) ==
    sendMessage([w EXCEPT !.nextCmd = @ + 1], s,
                SubscribeMessage(symbol, defaultLevels, w.nextCmd + 1))

\* subscribe(symbol, levels = 5)
subscribe(w, s, symbol, levels) ==
    sendMessage([w EXCEPT !.nextCmd = @ + 1], s,
                SubscribeMessage(symbol, levels, w.nextCmd + 1))

\* unsubscribe(symbol)
unsubscribe(w, s, symbol) ==
    sendMessage([w EXCEPT !.nextCmd = @ + 1], s,
                UnsubscribeMessage(symbol, w.nextCmd + 1))

\* private processMessageQueue(): while (queue.length > 0) { shift; sendMessage }.
\* sendMessage puts the message back when the handle is not an open socket, so
\* the loop then never ends: it is cut after more iterations than the queue
\* has messages and the client is marked hung.
RECURSIVE processLoop(_, _, _)
processLoop(w, s, fuel) ==
    IF w.services[s].messageQueue = <<>> THEN w
    ELSE IF fuel = 0 THEN [w EXCEPT !.hung = TRUE]
    ELSE processLoop(
            sendMessage([w EXCEPT !.services[s].messageQueue = Tail(@)], s,
                        Head(w.services[s].messageQueue)),
            s, fuel - 1)

processMessageQueue(w, s) == processLoop(w, s, 2 * Len(w.services[s].messageQueue) + 1)

NewTransport(s, awaiter) ==
    [readyState |-> "CONNECTING", owner |-> s, awaiter |-> awaiter,
     promise |-> "pending", wasOpen |-> FALSE, sent |-> <<>>]

FreeTransport ==
    [readyState |-> "CLOSED", owner |-> Null, awaiter |-> "none",
     promise |-> "none", wasOpen |-> FALSE, sent |-> <<>>]

FreeTransports(w) == {t \in 1..MaxTransports : w.transports[t].readyState = "CLOSED"}

\* this.ws = new WebSocket(url)
newWebSocket(w, s, awaiter) ==
    IF FreeTransports(w) = {} THEN [w EXCEPT !.overflow = TRUE]
    ELSE Log([w EXCEPT !.services[s].ws = Min(FreeTransports(w)),
                       !.transports[Min(FreeTransports(w))] = NewTransport(s, awaiter)],
             <<"new", Min(FreeTransports(w)), s>>)

\* connect(token); awaiter is who holds the returned promise
connect(w, s, awaiter) ==
    IF isConnected(w, s) THEN Log(w, <<"resolved", s, awaiter>>)
    ELSE IF w.services[s].isConnecting THEN Log(w, <<"rejected", s, awaiter>>)
    ELSE newWebSocket([w EXCEPT !.services[s].isConnecting = TRUE], s, awaiter)

\* connect(token) when new WebSocket(url) throws (a URL the browser refuses):
\* the catch block clears the flag and rejects; this.ws keeps its value
connectConstructorThrows(w, s, awaiter) ==
    IF isConnected(w, s) THEN Log(w, <<"resolved", s, awaiter>>)
    ELSE IF w.services[s].isConnecting THEN Log(w, <<"rejected", s, awaiter>>)
    ELSE Log([w EXCEPT !.services[s].isConnecting = FALSE], <<"rejected", s, awaiter>>)

\* WebSocket.close(code, reason) as the browser performs it
wsClose(w, t) ==
    IF w.transports[t].readyState \in {"CONNECTING", "OPEN"}
    THEN Log([w EXCEPT !.transports[t].readyState = "CLOSING"],
             <<"close", t, NormalClosure>>)
    ELSE w

\* disconnect as it would be if it used up one retry instead of all of them
disconnectOneRetry(w, s) ==
    LET w1 == IF w.services[s].ws # Null
              THEN [wsClose(w, w.services[s].ws) EXCEPT !.services[s].ws = Null]
              ELSE w
    IN [w1 EXCEPT !.services[s].reconnectAttempts =
                     IF @ < maxReconnectAttempts THEN @ + 1 ELSE @]

\* disconnect()
disconnect(w, s) ==
    LET w1 == IF w.services[s].ws # Null
              THEN [wsClose(w, w.services[s].ws) EXCEPT !.services[s].ws = Null]
              ELSE w
    IN [w1 EXCEPT !.services[s].reconnectAttempts = maxReconnectAttempts]

\* the backoff factor as it would be if it grew linearly
Pow2Linear(n) == IF n <= 0 THEN 1 ELSE n + 1

\* Math.pow(2, n)
Pow2(n) == IF n <= 0 THEN 1 ELSE 2 ^ n

\* private scheduleReconnect(token)
scheduleReconnect(w, s) ==
    LET a == w.services[s].reconnectAttempts + 1
        delay == reconnectInterval * Pow2(a - 1)
    IN Log([w EXCEPT !.services[s].reconnectAttempts = a,
                     !.timers.reconnect[s] = @ + 1],
           <<"setTimeout", s, delay>>)

\* the setTimeout callback of scheduleReconnect
reconnectCallback(w, s) ==
    IF w.services[s].reconnectAttempts < maxReconnectAttempts
    THEN connect(w, s, "timer")
    ELSE w

\* ------------------------------------------- useWebSocketStore (part 2)
\* the rest of the store's connect after `await wsService.connect(token)`
storeConnectResolved(w) ==
    [w EXCEPT !.store.wsService = w.wsService, !.store.connectionError = "null"]

\* the catch block of the store's connect; the rejection value of onerror is
\* an Event, not an Error, so the message is 'Connection failed'
storeConnectRejected(w) ==
    Log([w EXCEPT !.store.connectionError = "Connection failed",
                  !.store.isConnected = FALSE],
        <<"throw", "store.connect">>)

\* resolve(true) / reject(error) of the promise of the connect call that
\* created transport t: a promise settles once, later calls do nothing
settle(w, t, how) ==
    IF w.transports[t].promise # "pending" THEN w
    ELSE IF w.transports[t].awaiter # "store"
    THEN Log([w EXCEPT !.transports[t].promise = how],
             <<how, w.transports[t].owner, w.transports[t].awaiter>>)
    ELSE IF how = "resolved"
    THEN storeConnectResolved(Log([w EXCEPT !.transports[t].promise = how],
                                  <<how, w.transports[t].owner, "store">>))
    ELSE storeConnectRejected(Log([w EXCEPT !.transports[t].promise = how],
                                  <<how, w.transports[t].owner, "store">>))

\* ------------------------------------------------ the socket's handlers
\* this.ws.onopen
onopen(w, t) ==
    LET s == w.transports[t].owner
        w1 == [w EXCEPT !.services[s].isConnecting = FALSE,
                        !.services[s].reconnectAttempts = 0]
        w2 == processMessageQueue(w1, s)
        w3 == emit(w2, s, "connected", "null")
    IN IF w2.hung THEN w2
       ELSE IF w3.thrown THEN uncaught(w3)
       ELSE settle(w3, t, "resolved")

\* onclose as it would be with `<=` in the retry-budget test
oncloseInclusive(w, t, code) ==
    LET s == w.transports[t].owner
        w1 == [w EXCEPT !.services[s].isConnecting = FALSE,
                        !.services[s].ws = Null]
        w2 == emit(w1, s, "disconnected", code)
    IN IF w2.thrown THEN uncaught(w2)
       ELSE IF code # NormalClosure /\ w2.services[s].reconnectAttempts <= maxReconnectAttempts
       THEN scheduleReconnect(w2, s)
       ELSE w2

\* this.ws.onclose
onclose(w, t, code) ==
    LET s == w.transports[t].owner
        w1 == [w EXCEPT !.services[s].isConnecting = FALSE,
                        !.services[s].ws = Null]
        w2 == emit(w1, s, "disconnected", code)
    IN IF w2.thrown THEN uncaught(w2)
       ELSE IF code # NormalClosure /\ w2.services[s].reconnectAttempts < maxReconnectAttempts
       THEN scheduleReconnect(w2, s)
       ELSE w2

\* this.ws.onerror
onerror(w, t) ==
    LET s == w.transports[t].owner
        w1 == [w EXCEPT !.services[s].isConnecting = FALSE]
        w2 == emit(w1, s, "error", "null")
    IN IF w2.thrown THEN uncaught(w2)
       ELSE settle(w2, t, "rejected")

\* handleMessage as it would be if an unrecognised type were reported as an error
handleMessageUnknownIsError(w, t, frame) ==
    CASE frame.type = "orderbook" -> emit(w, w.transports[t].owner, "orderbook", frame)
      [] frame.type = "error" -> emit(w, w.transports[t].owner, "error", frame.data)
      [] OTHER -> emit(w, w.transports[t].owner, "error", frame.type)

\* private handleMessage(message)
handleMessage(w, t, frame) ==
    CASE frame.type = "orderbook" -> emit(w, w.transports[t].owner, "orderbook", frame)
      [] frame.type = "error" -> emit(w, w.transports[t].owner, "error", frame.data)
      [] OTHER -> w

\* this.ws.onmessage: try { JSON.parse; handleMessage } catch { console.error }.
\* frame.json tells whether event.data parses as JSON
onmessage(w, t, frame) ==
    IF ~frame.json THEN Log(w, <<"caught", "SyntaxError">>)
    ELSE LET w1 == handleMessage(w, t, frame)
         IN IF w1.thrown
            THEN Log([w1 EXCEPT !.thrown = FALSE], <<"caught", "listener">>)
            ELSE w1

\* ------------------------------------------- useWebSocketStore (part 3)
\* connect: async (token) => ...
storeConnect(w) ==
    IF w.store.wsService # Null /\ isConnected(w, w.store.wsService)
    THEN Log(w, <<"return", "store.connect">>)
    ELSE LET w1 == IF w.wsService # Null THEN disconnect(w, w.wsService) ELSE w
         IN IF FreeServices(w1) = {} THEN [w1 EXCEPT !.overflow = TRUE]
            ELSE connect([w1 EXCEPT !.services[Min(FreeServices(w1))] =
                                        NewService(StoreListeners, FALSE),
                                    !.wsService = Min(FreeServices(w1))],
                         Min(FreeServices(w1)), "store")

\* disconnect: () => ...
storeDisconnect(w) ==
    LET w1 == IF w.wsService # Null
              THEN [disconnect(w, w.wsService) EXCEPT !.wsService = Null]
              ELSE w
    IN [w1 EXCEPT !.store = StoreInit]

\* subscribeToSymbol as it would be if it only tested !state.wsService
subscribeToSymbolHandleOnly(w, symbol, levels) ==
    IF w.store.wsService = Null
    THEN Log([w EXCEPT !.store.connectionError = "WebSocket not connected"],
             <<"return", "subscribeToSymbol">>)
    ELSE LET svc == w.store.wsService
             old == w.store.currentSymbol
             w1 == [w EXCEPT !.store.connectionError = "null"]
             w2 == IF old # "null" /\ old # symbol
                   THEN [unsubscribe(w1, svc, old) EXCEPT
                            !.store.orderBookData[old] = "null"]
                   ELSE w1
             w3 == subscribe(w2, svc, symbol, levels)
         IN [w3 EXCEPT !.store.currentSymbol = symbol]

\* subscribeToSymbol: (symbol, levels = 5) => ...
subscribeToSymbol(w, symbol, levels) ==
    IF w.store.wsService = Null \/ ~isConnected(w, w.store.wsService)
    THEN Log([w EXCEPT !.store.connectionError = "WebSocket not connected"],
             <<"return", "subscribeToSymbol">>)
    ELSE LET svc == w.store.wsService
             old == w.store.currentSymbol
             w1 == [w EXCEPT !.store.connectionError = "null"]
             w2 == IF old # "null" /\ old # symbol
                   THEN [unsubscribe(w1, svc, old) EXCEPT
                            !.store.orderBookData[old] = "null"]
                   ELSE w1
             w3 == subscribe(w2, svc, symbol, levels)
         IN [w3 EXCEPT !.store.currentSymbol = symbol]

\* unsubscribeFromSymbol: (symbol) => ...
unsubscribeFromSymbol(w, symbol) ==
    IF w.store.wsService = Null \/ ~isConnected(w, w.store.wsService)
    THEN Log(w, <<"return", "unsubscribeFromSymbol">>)
    ELSE LET w1 == unsubscribe(w, w.store.wsService, symbol)
         IN [w1 EXCEPT !.store.orderBookData[symbol] = "null",
                       !.store.currentSymbol = IF @ = symbol THEN "null" ELSE @]

\* getOrderBookForSymbol: (symbol) => state.orderBookData[symbol] || null
getOrderBookForSymbol(w, symbol) == w.store.orderBookData[symbol]

\* the timer callback as it would be if it used the handle kept in the state
autoSubscribeStateHandle(w) ==
    LET w1 == IF w.store.wsService # Null
              THEN subscribe(w, w.store.wsService, w.selectedSymbol, defaultLevels)
              ELSE w
    IN [w1 EXCEPT !.store.currentSymbol = w.selectedSymbol]

\* the setTimeout callback of the 'connected' listener
autoSubscribe(w) ==
    LET w1 == IF w.wsService # Null
              THEN subscribe(w, w.wsService, w.selectedSymbol, defaultLevels)
              ELSE w
    IN [w1 EXCEPT !.store.currentSymbol = w.selectedSymbol]

\* useMarketStore.setSelectedSymbol
setSelectedSymbol(w, symbol) ==
    IF w.store.isConnected
    THEN subscribeToSymbol([w EXCEPT !.selectedSymbol = symbol], symbol, defaultLevels)
    ELSE [w EXCEPT !.selectedSymbol = symbol]

\* ------------------------------------------------------ garbage collection
\* Garbage: a socket whose close event has been handled, and a service that
\* neither its creator, nor the store, nor a socket, nor a pending reconnect
\* timer refers to.
Referenced(w, s) ==
    \/ w.services[s].held
    \/ w.wsService = s
    \/ w.store.wsService = s
    \/ \E t \in 1..MaxTransports :
          w.transports[t].readyState # "CLOSED" /\ w.transports[t].owner = s
    \/ w.timers.reconnect[s] > 0

collect(w) ==
    [w EXCEPT !.transports =
                 [t \in 1..MaxTransports |->
                     IF w.transports[t].readyState = "CLOSED" THEN FreeTransport
                     ELSE w.transports[t]],
              !.services =
                 [s \in 1..MaxServices |->
                     IF Referenced(w, s) THEN w.services[s] ELSE FreeService]]

\* ---------------------------------------------------------------- actions
\* one handler, run to completion
Step(w) ==
    /\ ~hung
    /\ \E done \in {collect(w)} : WithinBounds(done) /\ Commit(done)

TransportIds == {t \in 1..MaxTransports : transports[t].readyState # "CLOSED"}
ServiceIds == {s \in 1..MaxServices : services[s].live}

\* the events of socket t as the browser delivers them, in a world w: the
\* readyState changes first, then the handler runs
opened(w, t) ==
    onopen([w EXCEPT !.transports[t].readyState = "OPEN",
                     !.transports[t].wasOpen = TRUE], t)

closed(w, t, code) ==
    onclose([w EXCEPT !.transports[t].readyState = "CLOSED"], t, code)

failed(w, t, code) ==
    onclose(onerror([w EXCEPT !.transports[t].readyState = "CLOSED"], t), t, code)

OpenResult(t) == opened(World, t)

CloseResult(t, code) == closed(World, t, code)

FailResult(t, code) == failed(World, t, code)

\* the browser delivers `open`
TransportOpen(t) ==
    /\ transports[t].readyState = "CONNECTING"
    /\ Step(OpenResult(t))

\* the browser delivers `close` after a closing handshake (no error event)
TransportClose(t, code) ==
    /\ transports[t].readyState \in {"OPEN", "CLOSING"}
    /\ transports[t].wasOpen
    /\ Step(CloseResult(t, code))

\* the connection fails: `error` and `close` (1006) in one task, the rejected
\* promise's continuation running between the two handlers
TransportFail(t, code) ==
    /\ transports[t].readyState \in {"CONNECTING", "OPEN", "CLOSING"}
    /\ Step(FailResult(t, code))

\* the frames of the server: order-book snapshots and error reports
OrderbookFrames ==
    [json : {TRUE}, type : {"orderbook"}, symbol : Symbols, data : Snapshots]
ErrorFrames ==
    [json : {TRUE}, type : {"error"}, symbol : {"null"}, data : {"server error"}]
\* frames handleMessage has no case for, and data that is not JSON
UnknownFrames ==
    [json : {TRUE}, type : {"heartbeat"}, symbol : {"null"}, data : {"null"}]
MalformedFrames ==
    [json : {FALSE}, type : {"null"}, symbol : {"null"}, data : {"null"}]
InboundFrames == OrderbookFrames \cup ErrorFrames \cup UnknownFrames \cup MalformedFrames

\* the browser delivers `message`
TransportMessage(t, frame) ==
    /\ transports[t].readyState \in {"OPEN", "CLOSING"}
    /\ transports[t].wasOpen
    /\ Step(onmessage(World, t, frame))

\* a timer set by scheduleReconnect expires
ReconnectTimer(s) ==
    /\ timers.reconnect[s] > 0
    /\ Step(reconnectCallback([World EXCEPT !.timers.reconnect[s] = @ - 1], s))

\* a timer set by the store's 'connected' listener expires
AutoSubscribeTimer ==
    /\ timers.autoSubscribe > 0
    /\ Step(autoSubscribe([World EXCEPT !.timers.autoSubscribe = @ - 1]))

\* calls on a WebSocketService made by the code that created it
ServiceConnect(s) == Step(connect(World, s, "caller"))
ServiceConnectThrows(s) ==
    /\ ~isConnected(World, s)
    /\ ~services[s].isConnecting
    /\ Step(connectConstructorThrows(World, s, "caller"))
ServiceDisconnect(s) == Step(disconnect(World, s))
ServiceSubscribe(s, symbol, levels) == Step(subscribe(World, s, symbol, levels))
ServiceUnsubscribe(s, symbol) == Step(unsubscribe(World, s, symbol))

\* registrations made by the code that created a WebSocketService
ListenerCount(s) ==
    Sum([e \in EventKinds |-> Len(services[s].eventListeners[e])], EventKinds)

ServiceOn(s, event, cb) ==
    /\ ListenerCount(s) < MaxListeners
    /\ Step(on(World, s, event, cb))

ServiceOff(s, event, cb) == Step(off(World, s, event, cb))

\* calls on the store made by the pages and components
StoreConnect == Step(storeConnect(World))
StoreDisconnect == Step(storeDisconnect(World))
SubscribeToSymbol(symbol, levels) == Step(subscribeToSymbol(World, symbol, levels))
UnsubscribeFromSymbol(symbol) == Step(unsubscribeFromSymbol(World, symbol))
SetSelectedSymbol(symbol) == Step(setSelectedSymbol(World, symbol))

InitCommon ==
    /\ transports = [t \in 1..MaxTransports |-> FreeTransport]
    /\ timers = NoTimers
    /\ wsService = Null
    /\ store = StoreInit
    /\ selectedSymbol = "EUR/USD"
    /\ nextCmd = 0
    /\ hung = FALSE

\* A WebSocketService used directly: new WebSocketService(wsUrl), no listeners
InitService ==
    /\ InitCommon
    /\ services = [s \in 1..MaxServices |->
                      IF s = 1 THEN NewService(NoListeners, TRUE) ELSE FreeService]

NextService ==
    \/ \E t \in TransportIds : TransportOpen(t)
    \/ \E t \in TransportIds, code \in CleanCloseCodes : TransportClose(t, code)
    \/ \E t \in TransportIds, code \in AbnormalCloseCodes : TransportFail(t, code)
    \/ \E s \in ServiceIds : ReconnectTimer(s)
    \/ \E s \in ServiceIds : ServiceConnect(s)
    \/ \E s \in ServiceIds : ServiceConnectThrows(s)
    \/ \E s \in ServiceIds : ServiceDisconnect(s)
    \/ \E s \in ServiceIds, symbol \in Symbols, levels \in Depths :
          ServiceSubscribe(s, symbol, levels)
    \/ \E s \in ServiceIds, symbol \in Symbols : ServiceUnsubscribe(s, symbol)

SpecService == InitService /\ [][NextService]_vars

\* A WebSocketService used directly by a consumer that registers listeners
InitListeners == InitService

NextListeners ==
    \/ \E t \in TransportIds : TransportOpen(t)
    \/ \E t \in TransportIds, code \in CleanCloseCodes : TransportClose(t, code)
    \/ \E t \in TransportIds, code \in AbnormalCloseCodes : TransportFail(t, code)
    \/ \E t \in TransportIds, frame \in InboundFrames : TransportMessage(t, frame)
    \/ \E s \in ServiceIds : ReconnectTimer(s)
    \/ \E s \in ServiceIds : ServiceConnect(s)
    \/ \E s \in ServiceIds : ServiceConnectThrows(s)
    \/ \E s \in ServiceIds : ServiceDisconnect(s)
    \/ \E s \in ServiceIds, event \in EventKinds, cb \in Callbacks : ServiceOn(s, event, cb)
    \/ \E s \in ServiceIds, event \in EventKinds, cb \in Callbacks : ServiceOff(s, event, cb)

SpecListeners == InitListeners /\ [][NextListeners]_vars

\* The store: services are created by its connect
InitStore == InitCommon /\ services = [s \in 1..MaxServices |-> FreeService]

NextStore ==
    \/ \E t \in TransportIds : TransportOpen(t)
    \/ \E t \in TransportIds, code \in CleanCloseCodes : TransportClose(t, code)
    \/ \E t \in TransportIds, code \in AbnormalCloseCodes : TransportFail(t, code)
    \/ \E t \in TransportIds, frame \in InboundFrames : TransportMessage(t, frame)
    \/ \E s \in ServiceIds : ReconnectTimer(s)
    \/ AutoSubscribeTimer
    \/ StoreConnect
    \/ StoreDisconnect
    \/ \E symbol \in Symbols, levels \in Depths : SubscribeToSymbol(symbol, levels)
    \/ \E symbol \in Symbols : UnsubscribeFromSymbol(symbol)
    \/ \E symbol \in Symbols : SetSelectedSymbol(symbol)

SpecStore == InitStore /\ [][NextStore]_vars

Spec == SpecStore

\* ================================================================= claims
\* sockets of service s that are connecting or open
LiveTransports(s) ==
    {t \in TransportIds : /\ transports[t].owner = s
                          /\ transports[t].readyState \in {"CONNECTING", "OPEN"}}

\* sockets of service s whose connect has not completed yet
InFlight(s) ==
    {t \in TransportIds : transports[t].owner = s /\ transports[t].readyState = "CONNECTING"}

\* the store's service has an open socket and the store reports it
ClientConnected ==
    /\ wsService # Null
    /\ isConnected(World, wsService)
    /\ store.isConnected

\* the store's service has no open socket
ClientNotConnected == wsService = Null \/ ~isConnected(World, wsService)

NoSend(w) == \A i \in DOMAIN w.fx : w.fx[i][1] # "send"

Occurrences(q, n) == Cardinality({i \in DOMAIN q : q[i].seq = n})

\* how many times command n is held by a queue or by the log of a socket
TimesHeld(n) ==
    Sum([s \in 1..MaxServices |-> Occurrences(services[s].messageQueue, n)], 1..MaxServices)
    + Sum([t \in 1..MaxTransports |-> Occurrences(transports[t].sent, n)], 1..MaxTransports)

\* C1: in every reachable state a service has at most one socket that is
\* connecting or open, and its handle (this.ws) refers to that socket.
C1_SingleLiveTransport ==
    \A s \in ServiceIds :
        /\ Cardinality(LiveTransports(s)) <= 1
        /\ \A t \in LiveTransports(s) : services[s].ws = t

\* C2: connect(token) called while a connect of the same service is in flight
\* is rejected, creates no socket and changes nothing.
C2_ConcurrentConnectRejected ==
    \A s \in ServiceIds :
        InFlight(s) # {} =>
            LET w == connect(World, s, "caller")
            IN /\ w.fx = << <<"rejected", s, "caller">> >>
               /\ w.transports = transports
               /\ w.services = services
               /\ w.timers = timers

\* C3: connect(token) called while the client is connected returns without
\* creating a socket, emitting an event or changing the retry counter, the
\* queue, the current symbol or the cache.
C3_ConnectWhileConnectedNoOp ==
    ClientConnected =>
        LET w == storeConnect(World)
        IN /\ w.fx = << <<"return", "store.connect">> >>
           /\ w.transports = transports
           /\ w.services = services
           /\ w.timers = timers
           /\ w.store = store

\* C4: the open handler of every socket resets the retry counter to 0, sends
\* the queued commands in FIFO order leaving the queue empty, and only then
\* emits `connected`.
C4_OpenResetsFlushesThenEmits ==
    \A t \in TransportIds :
        transports[t].readyState = "CONNECTING" =>
            LET s == transports[t].owner
                q == services[s].messageQueue
                w == OpenResult(t)
            IN /\ ~w.hung
               /\ w.services[s].reconnectAttempts = 0
               /\ w.services[s].messageQueue = <<>>
               /\ Len(w.fx) > Len(q)
               /\ \A i \in 1..Len(q) : w.fx[i] = <<"send", t, q[i]>>
               /\ w.fx[Len(q) + 1] = <<"emit", s, "connected", "null">>

\* C5: when a socket opens, it has received exactly the commands that were
\* queued, in their issue order, and a command issued after the open (as from
\* a `connected` listener) goes behind them.
C5_QueuedCommandsFirstInOrder ==
    \A t \in TransportIds :
        transports[t].readyState = "CONNECTING" =>
            LET s == transports[t].owner
                q == services[s].messageQueue
                w == OpenResult(t)
            IN /\ w.transports[t].sent = q
               /\ \A symbol \in Symbols, levels \in Depths :
                     subscribe(w, s, symbol, levels).transports[t].sent =
                        Append(q, SubscribeMessage(symbol, levels, nextCmd + 1))

\* C6: no command is held twice (sent twice, or sent and still queued); the
\* open of a socket sends every queued command exactly once; a close or a
\* failed attempt leaves the queue as it is.
C6_EachCommandSentOnce ==
    /\ \A n \in 1..nextCmd : TimesHeld(n) <= 1
    /\ \A t \in TransportIds :
          LET s == transports[t].owner
              q == services[s].messageQueue
          IN /\ \A code \in AbnormalCloseCodes :
                   FailResult(t, code).services[s].messageQueue = q
             /\ transports[t].wasOpen =>
                   \A code \in CleanCloseCodes :
                      CloseResult(t, code).services[s].messageQueue = q
             /\ transports[t].readyState = "CONNECTING" =>
                   /\ ~OpenResult(t).hung
                   /\ OpenResult(t).services[s].messageQueue = <<>>
                   /\ \A i \in DOMAIN q :
                         Occurrences(OpenResult(t).transports[t].sent, q[i].seq) = 1

C8_SwitchSendsUnsubscribeThenSubscribe ==
    \A a \in Symbols, b \in Symbols, levels \in Depths :
        (ClientConnected /\ store.currentSymbol = a /\ b # a) =>
            LET w == subscribeToSymbol(World, b, levels)
                t == services[wsService].ws
            IN /\ w.fx = << <<"send", t, UnsubscribeMessage(a, nextCmd + 1)>>,
                            <<"send", t, SubscribeMessage(b, levels, nextCmd + 2)>> >>
               /\ getOrderBookForSymbol(w, a) = "null"
               /\ w.store.currentSymbol = b

C10_ResubscribeSameSymbol ==
    \A symbol \in Symbols, levels \in Depths :
        (ClientConnected /\ store.currentSymbol = symbol) =>
            LET w == subscribeToSymbol(World, symbol, levels)
                t == services[wsService].ws
            IN /\ w.fx = << <<"send", t, SubscribeMessage(symbol, levels, nextCmd + 1)>> >>
               /\ w.store.orderBookData[symbol] = store.orderBookData[symbol]
               /\ w.store.currentSymbol = symbol

\* the handler emitted `event` with payload `data` for service s
Emitted(w, s, event, data) ==
    \E i \in DOMAIN w.fx :
        /\ w.fx[i][1] = "emit"
        /\ w.fx[i][2] = s
        /\ w.fx[i][3] = event
        /\ w.fx[i][4] = data

\* C11, in the Connected state: unsubscribeFromSymbol(S) sends Unsubscribe{S}
\* and nothing else, deletes the cache entry of S, clears the current symbol
\* if and only if it is S, and leaves every other cache entry unchanged.
C11_UnsubscribeSendsAndClears ==
    \A symbol \in Symbols :
        ClientConnected =>
            LET w == unsubscribeFromSymbol(World, symbol)
                t == services[wsService].ws
            IN /\ w.fx = << <<"send", t, UnsubscribeMessage(symbol, nextCmd + 1)>> >>
               /\ getOrderBookForSymbol(w, symbol) = "null"
               /\ w.store.currentSymbol =
                     IF store.currentSymbol = symbol THEN "null" ELSE store.currentSymbol
               /\ \A other \in Symbols \ {symbol} :
                     getOrderBookForSymbol(w, other) = getOrderBookForSymbol(World, other)

\* C12: the handling of every close event, clean or after an error and
\* whatever its code, emits `disconnected` with that code and leaves the
\* snapshot cache empty and no current symbol.
C12_CloseEmitsAndClears ==
    \A t \in TransportIds :
        LET s == transports[t].owner
        IN /\ \A code \in AbnormalCloseCodes :
                 LET w == FailResult(t, code)
                 IN /\ Emitted(w, s, "disconnected", code)
                    /\ w.store.orderBookData = EmptyOrderBookData
                    /\ w.store.currentSymbol = "null"
           /\ transports[t].wasOpen =>
                 \A code \in CleanCloseCodes :
                    LET w == CloseResult(t, code)
                    IN /\ Emitted(w, s, "disconnected", code)
                       /\ w.store.orderBookData = EmptyOrderBookData
                       /\ w.store.currentSymbol = "null"

\* an open socket of the store's service, a current symbol and a snapshot
\* received since it opened: the close of that socket has something to clear
C12_Witness ==
    /\ ClientConnected
    /\ store.currentSymbol # "null"
    /\ store.lastUpdate # 0
    /\ CloseResult(services[wsService].ws, NormalClosure).store.currentSymbol = "null"

\* the handler created a socket
Created(w) == \E i \in DOMAIN w.fx : w.fx[i][1] = "new"

\* the handler set a timer
Scheduled(w) == \E i \in DOMAIN w.fx : w.fx[i][1] = "setTimeout"

\* the callback of one pending reconnect timer of service s, run in world w
TimerFires(w, s) ==
    reconnectCallback([w EXCEPT !.fx = <<>>, !.timers.reconnect[s] = @ - 1], s)

\* C13: the handling of a close event with code 1000 schedules no reconnect
\* and leaves the service Disconnected, and no reconnect timer that is still
\* pending at that moment starts a connection attempt when it expires.
C13_NormalCloseNoReconnect ==
    \A t \in TransportIds :
        transports[t].wasOpen =>
            LET s == transports[t].owner
                w == CloseResult(t, NormalClosure)
            IN /\ ~Scheduled(w)
               /\ w.timers = timers
               /\ connectionState(w, s) = "disconnected"
               /\ w.timers.reconnect[s] > 0 => ~Created(TimerFires(w, s))

\* C14: a close event with a code other than 1000, handled while the attempt
\* counter is below the maximum (any value 0..4), schedules a reconnect timer,
\* and when that timer expires (no disconnect() in between) a new socket is
\* created and the service is Connecting.
C14_AbnormalCloseReconnects ==
    \A t \in TransportIds :
        LET s == transports[t].owner
        IN services[s].reconnectAttempts < maxReconnectAttempts =>
              /\ \A code \in AbnormalCloseCodes :
                    LET w == FailResult(t, code)
                    IN /\ w.timers.reconnect[s] = timers.reconnect[s] + 1
                       /\ Created(TimerFires(w, s))
                       /\ connectionState(TimerFires(w, s), s) = "connecting"
              /\ transports[t].wasOpen =>
                    \A code \in CleanCloseCodes \ {NormalClosure} :
                       LET w == CloseResult(t, code)
                       IN /\ w.timers.reconnect[s] = timers.reconnect[s] + 1
                          /\ Created(TimerFires(w, s))
                          /\ connectionState(TimerFires(w, s), s) = "connecting"

\* base x 1, x 2, x 4, x 8, x 16
BackoffDelays == <<1000, 2000, 4000, 8000, 16000>>

\* C15: every reconnect timer set by the handling of a close event has delay
\* reconnectInterval * 2^(a-1), a being the attempt counter after its
\* increment, a in 1..5: 1000, 2000, 4000, 8000, 16000 ms, nothing added.
C15_BackoffDelay ==
    \A t \in TransportIds, code \in AbnormalCloseCodes :
        LET s == transports[t].owner
            w == FailResult(t, code)
            a == w.services[s].reconnectAttempts
        IN \A i \in DOMAIN w.fx :
              w.fx[i][1] = "setTimeout" =>
                 /\ a \in 1..maxReconnectAttempts
                 /\ a = services[s].reconnectAttempts + 1
                 /\ w.fx[i] = <<"setTimeout", s, reconnectInterval * 2 ^ (a - 1)>>
                 /\ w.fx[i][3] = BackoffDelays[a]

\* a socket whose failure schedules the fifth retry, at base x 16
C15_Witness ==
    \E t \in TransportIds, code \in AbnormalCloseCodes :
        /\ services[transports[t].owner].reconnectAttempts = maxReconnectAttempts - 1
        /\ Scheduled(FailResult(t, code))
        /\ FailResult(t, code).services[transports[t].owner].reconnectAttempts
              = maxReconnectAttempts

\* C16: the attempt counter of every service is in 0..5; a close event that
\* schedules a retry increments it by one first, never beyond 5, and one that
\* schedules none leaves it alone; the open event sets it to 0, and no other
\* operation or event brings a non-zero counter to 0.
C16_CounterInRange ==
    \A s \in ServiceIds :
        LET a == services[s].reconnectAttempts
            Kept(w) == w.services[s].reconnectAttempts = 0 => a = 0
        IN /\ a \in 0..maxReconnectAttempts
           /\ Kept(connect(World, s, "caller"))
           /\ Kept(disconnect(World, s))
           /\ Kept(reconnectCallback(World, s))
           /\ \A symbol \in Symbols :
                 /\ Kept(unsubscribe(World, s, symbol))
                 /\ \A levels \in Depths : Kept(subscribe(World, s, symbol, levels))
           /\ \A t \in TransportIds :
                 transports[t].owner = s =>
                    /\ transports[t].readyState = "CONNECTING" =>
                          OpenResult(t).services[s].reconnectAttempts = 0
                    /\ \A code \in AbnormalCloseCodes :
                          LET w == FailResult(t, code)
                          IN w.services[s].reconnectAttempts =
                                IF Scheduled(w) THEN a + 1 ELSE a
                    /\ transports[t].wasOpen =>
                          \A code \in CleanCloseCodes :
                             LET w == CloseResult(t, code)
                             IN w.services[s].reconnectAttempts =
                                   IF Scheduled(w) THEN a + 1 ELSE a

\* the fourth retry is connecting, the counter at 4: its failure brings the
\* counter to its maximum with the fifth timer, its success back to 0
C16_Witness ==
    \E t \in TransportIds, code \in AbnormalCloseCodes :
        /\ transports[t].readyState = "CONNECTING"
        /\ services[transports[t].owner].ws = t
        /\ services[transports[t].owner].reconnectAttempts = maxReconnectAttempts - 1
        /\ Scheduled(FailResult(t, code))
        /\ FailResult(t, code).services[transports[t].owner].reconnectAttempts
              = maxReconnectAttempts
        /\ OpenResult(t).services[transports[t].owner].reconnectAttempts = 0

\* Every retry fails: the pending reconnect timer of s expires, the socket its
\* callback creates (if any) fails with `code`, and so on until no timer of s
\* is pending. retries counts the sockets created on the way, disconnects the
\* `disconnected` events their closes emitted.
RECURSIVE RetryUntilQuiet(_, _, _, _)
RetryUntilQuiet(w, s, code, fuel) ==
    IF w.timers.reconnect[s] = 0 \/ fuel = 0
    THEN [world |-> w, retries |-> 0, disconnects |-> 0]
    ELSE LET w1 == TimerFires(w, s)
         IN IF Created(w1)
            THEN LET w2 == failed([w1 EXCEPT !.fx = <<>>], w1.services[s].ws, code)
                     r == RetryUntilQuiet(w2, s, code, fuel - 1)
                 IN [world |-> r.world, retries |-> r.retries + 1,
                     disconnects |-> r.disconnects +
                                     IF Emitted(w2, s, "disconnected", code) THEN 1 ELSE 0]
            ELSE RetryUntilQuiet(w1, s, code, fuel - 1)

\* C17: with the counter at 0 and no timer pending, the failure of the
\* service's socket (close 1006) sets exactly one timer, at delay base x 1;
\* when every retry fails as well, five retries are made, each close up to
\* the last emits `disconnected`, and the service is then Disconnected with
\* the counter at 5 and no timer pending; a connect by the caller starts a new
\* attempt.
C17_RetriesUntilExhausted ==
    \A t \in TransportIds, code \in AbnormalCloseCodes :
        LET s == transports[t].owner
        IN (/\ services[s].ws = t
            /\ services[s].reconnectAttempts = 0
            /\ timers.reconnect[s] = 0) =>
              LET w == FailResult(t, code)
                  r == RetryUntilQuiet(w, s, code, 2 * maxReconnectAttempts)
                  end == r.world
              IN /\ Cardinality({i \in DOMAIN w.fx : w.fx[i][1] = "setTimeout"}) = 1
                 /\ \A i \in DOMAIN w.fx :
                       w.fx[i][1] = "setTimeout" =>
                          w.fx[i] = <<"setTimeout", s, reconnectInterval>>
                 /\ Emitted(w, s, "disconnected", code)
                 /\ r.disconnects = r.retries
                 /\ r.retries = maxReconnectAttempts
                 /\ end.timers.reconnect[s] = 0
                 /\ end.services[s].reconnectAttempts = maxReconnectAttempts
                 /\ connectionState(end, s) = "disconnected"
                 /\ Created(connect([end EXCEPT !.fx = <<>>], s, "caller"))

\* the sockets of service s that exist in world w
SocketsOf(w, s) ==
    {t \in 1..MaxTransports : w.transports[t].readyState # "CLOSED" /\ w.transports[t].owner = s}

\* C18: disconnect() closes every connecting or open socket of the service
\* with code 1000, and afterwards neither a pending reconnect timer nor the
\* close event of a socket, whatever its code, starts or schedules a
\* connection attempt.
C18_DisconnectSuppressesReconnect ==
    \A s \in ServiceIds :
        LET w == disconnect(World, s)
            quiet == [w EXCEPT !.fx = <<>>]
        IN /\ \A t \in LiveTransports(s) :
                 /\ w.transports[t].readyState = "CLOSING"
                 /\ \E i \in DOMAIN w.fx : w.fx[i] = <<"close", t, NormalClosure>>
           /\ w.timers.reconnect[s] > 0 => ~Created(TimerFires(w, s))
           /\ \A t \in SocketsOf(w, s) :
                 /\ w.transports[t].readyState # "CONNECTING"
                 /\ \A code \in AbnormalCloseCodes :
                       ~Scheduled(failed(quiet, t, code))
                 /\ w.transports[t].wasOpen =>
                       \A code \in CleanCloseCodes : ~Scheduled(closed(quiet, t, code))

\* the same client state in two worlds (what the handlers did aside)
SameClientState(w1, w2) ==
    /\ w1.transports = w2.transports
    /\ w1.services = w2.services
    /\ w1.timers = w2.timers
    /\ w1.wsService = w2.wsService
    /\ w1.store = w2.store
    /\ w1.selectedSymbol = w2.selectedSymbol
    /\ w1.nextCmd = w2.nextCmd
    /\ w1.hung = w2.hung

\* C19: a second disconnect() right after a first one, on the service or on
\* the store, changes nothing (handle, counter, queue, cache, current symbol,
\* sockets, timers) and closes nothing.
C19_DisconnectIdempotent ==
    /\ \A s \in ServiceIds :
          LET once == disconnect(World, s)
              twice == disconnect([once EXCEPT !.fx = <<>>], s)
          IN /\ SameClientState(once, twice)
             /\ twice.fx = <<>>
    /\ LET once == storeDisconnect(World)
           twice == storeDisconnect([once EXCEPT !.fx = <<>>])
       IN /\ SameClientState(once, twice)
          /\ twice.fx = <<>>

\* a connected store with a current symbol and a snapshot received, whose
\* disconnect closes the socket and clears the store
C19_Witness ==
    /\ ClientConnected
    /\ store.currentSymbol # "null"
    /\ store.lastUpdate # 0
    /\ services[wsService].reconnectAttempts = 0
    /\ storeDisconnect(World).fx = << <<"close", services[wsService].ws, NormalClosure>> >>

\* C20: disconnect() called while a socket of the service is connecting or a
\* reconnect timer is pending leaves no socket of the service connecting or
\* open, and the pending timer then creates no socket and emits no
\* `connected`.
C20_DisconnectCancelsWait ==
    \A s \in ServiceIds :
        (InFlight(s) # {} \/ timers.reconnect[s] > 0) =>
            LET w == disconnect(World, s)
            IN /\ \A t \in SocketsOf(w, s) :
                     w.transports[t].readyState \notin {"CONNECTING", "OPEN"}
               /\ w.timers.reconnect[s] > 0 =>
                     /\ ~Created(TimerFires(w, s))
                     /\ ~Emitted(TimerFires(w, s), s, "connected", "null")

\* how many times the handler resolved or rejected a connect promise
Settlements(w) ==
    Cardinality({i \in DOMAIN w.fx : w.fx[i][1] \in {"resolved", "rejected"}})

\* C21: every connect(token) completes exactly once, resolved or rejected:
\* a call that creates no socket completes at once; a promise is pending only
\* while its socket is still connecting (or being closed before it opened);
\* the open of that socket resolves it and the error + close of that socket
\* rejects it, each exactly once, whatever listeners are registered.
C21_ConnectSettlesOnce ==
    /\ \A t \in 1..MaxTransports :
          transports[t].promise = "pending" =>
              \/ transports[t].readyState = "CONNECTING"
              \/ transports[t].readyState = "CLOSING" /\ ~transports[t].wasOpen
    /\ ~hung =>
          /\ \A s \in ServiceIds :
                LET w == connect(World, s, "caller")
                IN ~w.overflow =>
                      IF Created(w) THEN Settlements(w) = 0 ELSE Settlements(w) = 1
          /\ \A t \in TransportIds :
                transports[t].promise = "pending" =>
                    /\ transports[t].readyState = "CONNECTING" =>
                          /\ OpenResult(t).transports[t].promise = "resolved"
                          /\ Settlements(OpenResult(t)) = 1
                    /\ \A code \in AbnormalCloseCodes :
                          /\ FailResult(t, code).transports[t].promise = "rejected"
                          /\ Settlements(FailResult(t, code)) = 1

\* sockets on which the browser can deliver a message
Receiving == {t \in TransportIds : /\ transports[t].readyState \in {"OPEN", "CLOSING"}
                                   /\ transports[t].wasOpen}

\* the handler emitted no event at all
NoEmit(w) == \A i \in DOMAIN w.fx : w.fx[i][1] # "emit"

\* C22: an inbound frame that is not JSON, or whose type is neither
\* `orderbook` nor `error`, emits no event and changes nothing: sockets,
\* counter, queue, timers, current symbol and cache stay as they were.
C22_BadFrameDropped ==
    ~hung =>
        \A t \in Receiving, frame \in UnknownFrames \cup MalformedFrames :
            LET w == onmessage(World, t, frame)
            IN /\ NoEmit(w)
               /\ SameClientState(w, World)
               /\ ~w.thrown

\* a connected store with a current symbol and a cached snapshot receives
\* data that is not JSON
C22_Witness ==
    /\ ClientConnected
    /\ store.wsService = wsService
    /\ store.currentSymbol # "null"
    /\ store.lastUpdate # 0
    /\ \E frame \in MalformedFrames :
          onmessage(World, services[wsService].ws, frame).fx
              = << <<"caught", "SyntaxError">> >>

\* the events the handler emitted, in order
Emits(w) == SelectSeq(w.fx, LAMBDA e : e[1] = "emit")

\* C23: a well-formed `error` frame from the server on the store's connection
\* emits exactly one `error` event with the server's reason and leaves the
\* connection open: the socket stays open, the store still reports connected,
\* no timer is set, and the current symbol and the cache are unchanged.
C23_ServerErrorKeepsConnection ==
    (ClientConnected /\ ~hung) =>
        \A frame \in ErrorFrames :
            LET w == onmessage(World, services[wsService].ws, frame)
            IN /\ Emits(w) = << <<"emit", wsService, "error", frame.data>> >>
               /\ w.transports = transports
               /\ isConnected(w, wsService)
               /\ w.store.isConnected
               /\ w.timers = timers
               /\ w.store.currentSymbol = store.currentSymbol
               /\ w.store.orderBookData = store.orderBookData

\* orderbook frames with two different payloads per symbol
SuccessiveFrames ==
    [json : {TRUE}, type : {"orderbook"}, symbol : Symbols, data : {"d1", "d2"}]

\* C24: after an `orderbook` frame for S, getOrderBookForSymbol(S) is that
\* frame's data; after a second frame for S it is the second frame's data;
\* the entries of the other symbols stay as they were.
C24_SnapshotOverwrite ==
    ~hung =>
        \A t \in Receiving, first \in SuccessiveFrames, second \in SuccessiveFrames :
            first.symbol = second.symbol =>
                LET w1 == onmessage(World, t, first)
                    w2 == onmessage(w1, t, second)
                IN /\ getOrderBookForSymbol(w1, first.symbol) = first.data
                   /\ getOrderBookForSymbol(w2, first.symbol) = second.data
                   /\ \A other \in Symbols \ {first.symbol} :
                         /\ getOrderBookForSymbol(w1, other) = getOrderBookForSymbol(World, other)
                         /\ getOrderBookForSymbol(w2, other) = getOrderBookForSymbol(World, other)

\* both symbols have an entry and a frame with another payload replaces one
C24_Witness ==
    /\ ClientConnected
    /\ \A symbol \in Symbols : getOrderBookForSymbol(World, symbol) = "d1"
    /\ \E second \in SuccessiveFrames :
          /\ second.data = "d2"
          /\ getOrderBookForSymbol(onmessage(World, services[wsService].ws, second),
                                   second.symbol) = "d2"

\* C25: a cache entry exists for S only while S is the symbol subscribed on
\* the current connection; after S is unsubscribed or switched away from,
\* getOrderBookForSymbol(S) is absent and stays absent when an `orderbook`
\* frame for S still arrives.
C25_CacheOnlyWhileSubscribed ==
    /\ \A symbol \in Symbols :
          getOrderBookForSymbol(World, symbol) # "null" =>
              ClientConnected /\ store.currentSymbol = symbol
    /\ (ClientConnected /\ store.wsService = wsService
            /\ store.currentSymbol # "null" /\ ~hung) =>
          \A frame \in OrderbookFrames :
              frame.symbol = store.currentSymbol =>
                  LET t == services[wsService].ws
                      gone == unsubscribeFromSymbol(World, frame.symbol)
                  IN /\ getOrderBookForSymbol(gone, frame.symbol) = "null"
                     /\ getOrderBookForSymbol(onmessage(gone, t, frame), frame.symbol) = "null"
                     /\ \A other \in Symbols \ {frame.symbol} :
                           LET switched == subscribeToSymbol(World, other, defaultLevels)
                           IN /\ getOrderBookForSymbol(switched, frame.symbol) = "null"
                              /\ getOrderBookForSymbol(onmessage(switched, t, frame),
                                                       frame.symbol) = "null"

\* C26: whenever the store's client has no open socket there is no current
\* symbol: every disconnect clears it and neither subscribeToSymbol nor the
\* delayed subscription after `connected` sets it while the socket is not
\* open.
C26_NoSubscriptionWhileDisconnected ==
    ClientNotConnected => store.currentSymbol = "null"

\* the listeners the handler invoked, in order
Calls(w) ==
    LET calls == SelectSeq(w.fx, LAMBDA e : e[1] = "call")
    IN [i \in DOMAIN calls |-> calls[i][2]]

\* the event kinds for which the handler invoked a listener
CalledFor(w) == {w.fx[i][3] : i \in {j \in DOMAIN w.fx : w.fx[j][1] = "call"}}

\* C27: an emission of an event invokes the listeners registered for that
\* event kind, each once, in the order they were registered with on(), and
\* no listener of another event kind.
C27_ListenersInRegistrationOrder ==
    ~hung =>
        \A s \in ServiceIds, event \in EventKinds :
            LET w == emit(World, s, event, "null")
            IN /\ Calls(w) = services[s].eventListeners[event]
               /\ CalledFor(w) \subseteq {event}

\* C28: when a listener throws, the listeners registered after it for the
\* same event are still invoked, and the handler of the transport event
\* still finishes: the open resolves connect, an abnormal close with retries
\* left schedules a reconnect.
C28_ThrowingListenerIsolated ==
    ~hung =>
        /\ \A s \in ServiceIds, event \in EventKinds :
              (\E i \in DOMAIN services[s].eventListeners[event] :
                    services[s].eventListeners[event][i] = "throws") =>
                  Calls(emit(World, s, event, "null")) = services[s].eventListeners[event]
        /\ \A t \in TransportIds :
              LET listeners == services[transports[t].owner].eventListeners
              IN /\ ( /\ transports[t].readyState = "CONNECTING"
                      /\ transports[t].promise = "pending"
                      /\ IndexOf(listeners["connected"], "throws") # 0
                      /\ ~OpenResult(t).hung ) =>
                        /\ Calls(OpenResult(t)) = listeners["connected"]
                        /\ OpenResult(t).transports[t].promise = "resolved"
                 /\ ( /\ transports[t].readyState = "OPEN"
                      /\ services[transports[t].owner].ws = t
                      /\ IndexOf(listeners["disconnected"], "throws") # 0 ) =>
                        \A code \in AbnormalCloseCodes :
                            /\ Calls(FailResult(t, code))
                                  = listeners["error"] \o listeners["disconnected"]
                            /\ Scheduled(FailResult(t, code))

\* the commands the handler sent or queued, in order, as <<type, symbol>>
Commands(w) ==
    LET out == SelectSeq(w.fx, LAMBDA e : e[1] \in {"send", "enqueue"})
    IN [i \in DOMAIN out |-> <<out[i][3].type, out[i][3].symbol>>]

\* C29: the symbol passed to subscribe/unsubscribe is used as it is, letter
\* case included: in the command on the wire, as the current symbol and as
\* the cache key. Switching between two symbols that differ only in case
\* unsubscribes one and subscribes the other, and a frame for one leaves the
\* cache entry of the other alone.
C29_SymbolVerbatim ==
    ~hung =>
        /\ \A s \in ServiceIds, symbol \in Symbols, levels \in Depths :
              /\ Commands(subscribe(World, s, symbol, levels)) = << <<"subscribe", symbol>> >>
              /\ Commands(unsubscribe(World, s, symbol)) = << <<"unsubscribe", symbol>> >>
        /\ \A symbol \in Symbols, levels \in Depths :
              LET w == subscribeToSymbol(World, symbol, levels)
                  old == store.currentSymbol
              IN Commands(w) # <<>> =>
                    /\ w.store.currentSymbol = symbol
                    /\ IF old # "null" /\ old # symbol
                       THEN /\ Commands(w) = << <<"unsubscribe", old>>, <<"subscribe", symbol>> >>
                            /\ getOrderBookForSymbol(w, old) = "null"
                       ELSE Commands(w) = << <<"subscribe", symbol>> >>
                    /\ getOrderBookForSymbol(w, symbol) = getOrderBookForSymbol(World, symbol)
        /\ \A symbol \in Symbols :
              LET w == unsubscribeFromSymbol(World, symbol)
              IN Commands(w) # <<>> =>
                    /\ Commands(w) = << <<"unsubscribe", symbol>> >>
                    /\ \A other \in Symbols \ {symbol} :
                          /\ getOrderBookForSymbol(w, other) = getOrderBookForSymbol(World, other)
                          /\ store.currentSymbol = other => w.store.currentSymbol = other
        /\ \A t \in Receiving, frame \in OrderbookFrames :
              \A other \in Symbols \ {frame.symbol} :
                  getOrderBookForSymbol(onmessage(World, t, frame), other)
                      = getOrderBookForSymbol(World, other)

\* the store is subscribed to "EUR/USD" with a cached snapshot and is asked
\* to subscribe to "eur/usd"
C29_Witness ==
    /\ ClientConnected
    /\ store.wsService = wsService
    /\ store.currentSymbol = "EUR/USD"
    /\ getOrderBookForSymbol(World, "EUR/USD") = "d1"
    /\ Commands(subscribeToSymbol(World, "eur/usd", defaultLevels))
          = << <<"unsubscribe", "EUR/USD">>, <<"subscribe", "eur/usd">> >>

\* C30: when the queue is flushed at the open of a socket and the commands
\* cannot be sent (the service's handle is not an open socket), the flush
\* stops: the open handler returns, the queue holds the same commands in the
\* same order and nothing is sent.
C30_FlushHaltsOnFailedSend ==
    ~hung =>
        \A t \in TransportIds :
            LET s == transports[t].owner
            IN ( /\ transports[t].readyState = "CONNECTING"
                 /\ services[s].ws # t
                 /\ ~isConnected(World, s)
                 /\ services[s].messageQueue # <<>> ) =>
                   LET w == OpenResult(t)
                   IN /\ ~w.hung
                      /\ w.services[s].messageQueue = services[s].messageQueue
                      /\ NoSend(w)

\* sequence q without its i-th element
Without(q, i) == SubSeq(q, 1, i - 1) \o SubSeq(q, i + 1, Len(q))

\* C40: off(event, cb) removes exactly one registration of cb for that event
\* and keeps the others in their order (nothing changes when cb is not
\* registered), connect() and disconnect() remove no listener, and when a
\* listener calls off() during a dispatch every listener registered for the
\* event is still invoked in that dispatch.
C40_OffRemovesOneAndSkipsNone ==
    ~hung =>
        \A s \in ServiceIds :
            /\ \A event \in EventKinds, cb \in Callbacks :
                  LET before == services[s].eventListeners
                      after == off(World, s, event, cb).services[s].eventListeners
                  IN /\ \A other \in EventKinds \ {event} : after[other] = before[other]
                     /\ IF IndexOf(before[event], cb) = 0
                        THEN after[event] = before[event]
                        ELSE \E i \in DOMAIN before[event] :
                                /\ before[event][i] = cb
                                /\ after[event] = Without(before[event], i)
            /\ connect(World, s, "caller").services[s].eventListeners
                  = services[s].eventListeners
            /\ disconnect(World, s).services[s].eventListeners
                  = services[s].eventListeners
            /\ \A event \in EventKinds :
                  ( /\ IndexOf(services[s].eventListeners[event], "offSelf") # 0
                    /\ IndexOf(services[s].eventListeners[event], "throws") = 0 ) =>
                      Calls(emit(World, s, event, "null")) = services[s].eventListeners[event]

\* an exception left the event handler
Uncaught(w) == \E i \in DOMAIN w.fx : w.fx[i][1] = "uncaught"

\* C31: a transport failure before or during connect (the error + close of a
\* socket that never opened, or new WebSocket throwing inside connect) emits
\* `error`, schedules a reconnect when the retry budget is not used up (the
\* close code of a failure is never 1000), and lets no exception leave the
\* handler.
C31_TransportErrorEmitsAndSchedules ==
    ~hung =>
        /\ \A t \in TransportIds :
              ~transports[t].wasOpen =>
                  \A code \in AbnormalCloseCodes :
                      LET s == transports[t].owner
                          w == FailResult(t, code)
                      IN /\ Emitted(w, s, "error", "null")
                         /\ Scheduled(w) <=> services[s].reconnectAttempts < maxReconnectAttempts
                         /\ ~Uncaught(w)
        /\ \A s \in ServiceIds :
              (~isConnected(World, s) /\ ~services[s].isConnecting) =>
                  LET w == connectConstructorThrows(World, s, "caller")
                  IN /\ Emitted(w, s, "error", "null")
                     /\ Scheduled(w) <=> services[s].reconnectAttempts < maxReconnectAttempts
                     /\ ~Uncaught(w)

\* the price levels of the payloads, best price first: "d1" is a well-formed
\* book, "crossed" has its best bid above its best ask, "unsorted" has its
\* bids in ascending order
Book(payload) ==
    CASE payload = "crossed" -> [bids |-> <<5, 2>>, asks |-> <<4, 6>>]
      [] payload = "unsorted" -> [bids |-> <<2, 3>>, asks |-> <<4, 5>>]
      [] OTHER -> [bids |-> <<3, 2>>, asks |-> <<4, 5>>]

\* bids descending, asks ascending, best bid below best ask
SnapshotInvariant(book) ==
    /\ \A i \in 1..(Len(book.bids) - 1) : book.bids[i] > book.bids[i + 1]
    /\ \A i \in 1..(Len(book.asks) - 1) : book.asks[i] < book.asks[i + 1]
    /\ (book.bids # <<>> /\ book.asks # <<>>) => book.bids[1] < book.asks[1]

\* orderbook frames as the feed can send them: well-formed, ill-ordered, or
\* without data
UnvalidatedFrames ==
    [json : {TRUE}, type : {"orderbook"}, symbol : Symbols,
     data : {"d1", "crossed", "unsorted", "null"}]

\* C32: an `orderbook` frame reaches the cache only when its data is present
\* and satisfies the ordering invariant: after any frame every cached
\* snapshot satisfies the invariant, and a frame without data or with
\* ill-ordered levels leaves the cache as it was.
C32_OnlyValidSnapshotsCached ==
    ~hung =>
        \A t \in Receiving, frame \in UnvalidatedFrames :
            LET w == onmessage(World, t, frame)
            IN /\ \A symbol \in Symbols :
                     getOrderBookForSymbol(w, symbol) # "null" =>
                         SnapshotInvariant(Book(getOrderBookForSymbol(w, symbol)))
               /\ (frame.data = "null" \/ ~SnapshotInvariant(Book(frame.data))) =>
                     w.store.orderBookData = store.orderBookData

\* C33: the flush of the outbound queue at the open of a socket always ends
\* with the queue empty: no handler loops for ever, and for every socket that
\* can still open, whatever was called since it was created, the open
\* handler returns and leaves the queue of its service empty.
C33_FlushTerminatesEmpty ==
    /\ ~hung
    /\ \A t \in TransportIds :
          transports[t].readyState = "CONNECTING" =>
              /\ ~OpenResult(t).hung
              /\ OpenResult(t).services[transports[t].owner].messageQueue = <<>>

\* C34: a close or error event of an earlier socket, delivered after the
\* service has created a newer one, leaves the newer connection alone: the
\* handle still refers to the newer socket, the connect-in-progress flag
\* keeps its value and no reconnect is scheduled.
C34_StaleEventsIgnored ==
    ~hung =>
        \A t \in TransportIds :
            LET s == transports[t].owner
                Untouched(w) ==
                    /\ w.services[s].ws = services[s].ws
                    /\ w.services[s].isConnecting = services[s].isConnecting
                    /\ ~Scheduled(w)
            IN (services[s].ws # Null /\ services[s].ws # t) =>
                  /\ \A code \in AbnormalCloseCodes : Untouched(FailResult(t, code))
                  /\ transports[t].wasOpen =>
                        \A code \in CleanCloseCodes : Untouched(CloseResult(t, code))

\* the handler rejected a connect promise
Rejected(w) == \E i \in DOMAIN w.fx : w.fx[i][1] = "rejected"

\* C35: connect(token) is rejected as already in progress exactly when
\* connectionState reports "connecting"; after disconnect() during a pending
\* connect, connectionState is "disconnected" and a new connect(token) is
\* accepted (it creates a socket).
C35_GuardAgreesWithState ==
    ~hung =>
        \A s \in ServiceIds :
            /\ Rejected(connect(World, s, "caller"))
                  <=> connectionState(World, s) = "connecting"
            /\ ( /\ services[s].ws # Null
                 /\ transports[services[s].ws].readyState = "CONNECTING" ) =>
                   LET gone == disconnect(World, s)
                       again == connect([gone EXCEPT !.fx = <<>>], s, "caller")
                   IN /\ connectionState(gone, s) = "disconnected"
                      /\ ~again.overflow => Created(again)

\* C36: after each event the store's isConnected flag is true exactly when
\* the socket of the store's current service is open.
C36_FlagMatchesTransport ==
    store.isConnected <=> (wsService # Null /\ isConnected(World, wsService))

\* after the first n commands of q, symbol is subscribed: a subscribe for it
\* was sent and no unsubscribe for it since
SubscribedAfter(q, n, symbol) ==
    \E i \in 1..n :
        /\ q[i].type = "subscribe" /\ q[i].symbol = symbol
        /\ \A j \in (i + 1)..n : ~(q[j].type = "unsubscribe" /\ q[j].symbol = symbol)

\* C37: in the commands sent over one connection, a subscribe for S is never
\* sent while another symbol T is subscribed: whenever T was subscribed
\* before it, the command just before it is the unsubscribe for T.
C37_OneSubscriptionOnWire ==
    \A t \in 1..MaxTransports :
        LET q == transports[t].sent
        IN \A n \in DOMAIN q :
              q[n].type = "subscribe" =>
                  \A other \in Symbols \ {q[n].symbol} :
                      SubscribedAfter(q, n - 1, other) =>
                          /\ n > 1
                          /\ q[n - 1].type = "unsubscribe"
                          /\ q[n - 1].symbol = other

\* the 500 ms timer of the 'connected' listener expires in world w
AutoSubscribeFires(w) ==
    autoSubscribe([w EXCEPT !.fx = <<>>, !.timers.autoSubscribe = @ - 1])

\* the handler sent a subscribe for symbol on socket t
SentSubscribe(w, t, symbol) ==
    \E i \in DOMAIN w.fx :
        /\ w.fx[i][1] = "send"
        /\ w.fx[i][2] = t
        /\ w.fx[i][3].type = "subscribe"
        /\ w.fx[i][3].symbol = symbol

\* C38: every open of a socket, of a first connect or of an automatic
\* reconnect, starts the timer whose callback sends a subscribe for the
\* selected symbol on that socket and makes it the current symbol; and
\* whenever that timer is pending while the store's connection is open, its
\* callback does so for the symbol selected at that time.
C38_OpenRestoresSubscription ==
    ~hung =>
        /\ \A t \in TransportIds :
              transports[t].readyState = "CONNECTING" =>
                  LET w == OpenResult(t)
                  IN /\ ~w.hung
                     /\ w.timers.autoSubscribe = timers.autoSubscribe + 1
                     /\ SentSubscribe(AutoSubscribeFires(w), t, selectedSymbol)
                     /\ AutoSubscribeFires(w).store.currentSymbol = selectedSymbol
        /\ ( /\ timers.autoSubscribe > 0
             /\ wsService # Null
             /\ isConnected(World, wsService) ) =>
               /\ SentSubscribe(AutoSubscribeFires(World), services[wsService].ws,
                                selectedSymbol)
               /\ AutoSubscribeFires(World).store.currentSymbol = selectedSymbol

\* an automatic reconnect of the store's service is about to open: the
\* current symbol was cleared by the failure and no timer is pending
C38_Witness ==
    /\ wsService # Null
    /\ services[wsService].ws # Null
    /\ transports[services[wsService].ws].readyState = "CONNECTING"
    /\ services[wsService].reconnectAttempts > 0
    /\ store.currentSymbol = "null"
    /\ timers.autoSubscribe = 0
    /\ SentSubscribe(AutoSubscribeFires(OpenResult(services[wsService].ws)),
                     services[wsService].ws, selectedSymbol)

\* C39: a service never has more than one reconnect timer pending: not in
\* any state, and not after the close or the failure of any of its sockets,
\* whatever connect() and disconnect() calls were made during a backoff
\* wait.
C39_OneReconnectTimer ==
    /\ \A s \in 1..MaxServices : timers.reconnect[s] <= 1
    /\ ~hung =>
          \A t \in TransportIds :
              LET s == transports[t].owner
              IN /\ \A code \in AbnormalCloseCodes :
                       FailResult(t, code).timers.reconnect[s] <= 1
                 /\ transports[t].wasOpen =>
                       \A code \in CleanCloseCodes :
                           CloseResult(t, code).timers.reconnect[s] <= 1
====
